---------------------------- MODULE Spec2Model ----------------------------
(***************************************************************************)
(* A model of the awd-cli core: the RuntimeManager (runtime/manager.py),   *)
(* the SimpleRegistryClient (registry/client.py) and the install, run and  *)
(* preview commands (cli.py).                                              *)
(*                                                                         *)
(* Text is modelled as a sequence of one-character strings, so that        *)
(* len(), count() and split() are computed rather than assumed.            *)
(*                                                                         *)
(* Each component has its own specification (SpecRuntime, SpecInstall,     *)
(* SpecRegistry, SpecScript); the variables of the other components stay   *)
(* at their idle values.                                                   *)
(***************************************************************************)
EXTENDS Integers, Sequences, FiniteSets, TLC

VARIABLES
    managed,     \* runtime_dir entry per binary name: "absent" | "file" | "dir"
    venv,        \* runtime_dir / "llm-venv": "absent" | "dir"
    onPath,      \* shutil.which(binary) is not None, per binary name
    rtOut,       \* the last RuntimeManager query and what it returned
    manifest,    \* awd.yml in the working directory, as yaml.safe_load reads it
    instPc,      \* install command: "idle" | "loop" | "exited"
    instIdx,     \* install command: index of the next dependency of the loop
    attempts,    \* install command: the arguments of the install_package calls so far
    report,      \* install command: what was reported for each attempted dependency
    instOutcome, \* install command: how the handler ended
    instExit,    \* install command: process exit status (-1 while running)
    fillerCount, \* registry: number of unrelated servers at the head of the catalog
    tail,        \* registry: the servers that follow them
    regOut,      \* the last SimpleRegistryClient call: its requests and result
    scr,         \* run/preview command: command, position, arguments, result
    stages,      \* run/preview command: the pipeline stages entered, in order
    calls,       \* run/preview command: ScriptRunner calls and subprocesses, in order
    surfaced,    \* run/preview command: the script list shown to the caller, if any
    installedMarkers, \* dependency names the local install state already reflects
    registryNames,    \* dependency names a registry lookup would find
    tplOut,      \* _load_template_file: the file content, the variables, the result
    compiledOut  \* preview: the compiled prompt files and the output paths shown

rtVars == <<managed, venv, onPath, rtOut>>

instVars == <<instPc, instIdx, attempts, report, instOutcome, instExit>>

regVars == <<fillerCount, tail, regOut>>

scrVars == <<scr, stages, calls, surfaced>>

depVars == <<installedMarkers, registryNames>>

vars == <<managed, venv, onPath, rtOut, manifest,
          instPc, instIdx, attempts, report, instOutcome, instExit,
          fillerCount, tail, regOut, scr, stages, calls, surfaced,
          installedMarkers, registryNames, tplOut, compiledOut>>

(***************************************************************************)
(* Text helpers                                                            *)
(***************************************************************************)

\* n copies of the character c
RECURSIVE Rep(_, _)
Rep(c, n) == IF n <= 0 THEN <<>> ELSE <<c>> \o Rep(c, n - 1)

\* str.count(c) for a one-character c
RECURSIVE Count(_, _)
Count(s, c) ==
    IF s = <<>> THEN 0
    ELSE (IF Head(s) = c THEN 1 ELSE 0) + Count(Tail(s), c)

(***************************************************************************)
(* RuntimeManager                                                          *)
(***************************************************************************)

\* self.supported_runtimes: runtime name -> binary name
SupportedRuntimes == {"codex", "llm"}

Binary(name) == IF name = "codex" THEN "codex" ELSE "llm"

Binaries == {Binary(n) : n \in SupportedRuntimes}

\* names a caller may pass, supported or not
RuntimeNames == SupportedRuntimes \cup {"gpt"}

EntryKinds == {"absent", "file", "dir"}

\* the file-system facts a query reads
FsNow == [managed |-> managed, onPath |-> onPath]

\* an availability test that takes any entry of the managed directory
IsRuntimeAvailableAnyEntry(fs, name) ==
    IF name \notin SupportedRuntimes THEN FALSE
    ELSE IF fs.managed[Binary(name)] # "absent" THEN TRUE
    ELSE fs.onPath[Binary(name)]

\* is_runtime_available: unsupported -> False; a regular file in the managed
\* directory -> True; otherwise whether the binary is on the system path
IsRuntimeAvailable(fs, name) ==
    IF name \notin SupportedRuntimes THEN FALSE
    ELSE IF fs.managed[Binary(name)] = "file" THEN TRUE
    ELSE fs.onPath[Binary(name)]

\* what is_runtime_available looks at, in order: the managed directory, and
\* the system path only when the managed directory has no regular file
AvailabilityChecks(fs, name) ==
    IF name \notin SupportedRuntimes THEN <<>>
    ELSE IF fs.managed[Binary(name)] = "file" THEN <<"managed">>
    ELSE <<"managed", "path">>

\* a preference list in the wrong order
RuntimePreferenceReversed == <<"llm", "codex">>

\* get_runtime_preference
GetRuntimePreference == <<"codex", "llm">>

\* the for loop of get_available_runtime over the rest of the preference list
RECURSIVE FirstAvailable(_, _)
FirstAvailable(fs, prefs) ==
    IF prefs = <<>> THEN "None"
    ELSE IF IsRuntimeAvailable(fs, Head(prefs)) THEN Head(prefs)
    ELSE FirstAvailable(fs, Tail(prefs))

\* get_available_runtime
GetAvailableRuntime(fs) == FirstAvailable(fs, GetRuntimePreference)

RuntimeInit ==
    /\ managed \in [Binaries -> EntryKinds]
    /\ venv \in {"absent", "dir"}
    /\ onPath \in [Binaries -> BOOLEAN]
    /\ rtOut = [op |-> "none"]

RuntimeIdle ==
    /\ managed = [b \in Binaries |-> "absent"]
    /\ venv = "absent"
    /\ onPath = [b \in Binaries |-> FALSE]
    /\ rtOut = [op |-> "none"]

\* The runtime directory and the system path are changed by other processes
\* (setup scripts, package managers, the user) without coordination; the
\* changes that matter are those made before the manager is called.
EnvChangeManaged ==
    \E b \in Binaries, k \in EntryKinds :
        /\ rtOut.op = "none"
        /\ managed[b] # k
        /\ managed' = [managed EXCEPT ![b] = k]
        /\ UNCHANGED <<venv, onPath, rtOut, manifest, depVars, compiledOut, tplOut, instVars, regVars, scrVars>>

EnvChangeVenv ==
    /\ rtOut.op = "none"
    /\ venv' = IF venv = "absent" THEN "dir" ELSE "absent"
    /\ UNCHANGED <<managed, onPath, rtOut, manifest, depVars, compiledOut, tplOut, instVars, regVars, scrVars>>

EnvChangePath ==
    \E b \in Binaries :
        /\ rtOut.op = "none"
        /\ onPath' = [onPath EXCEPT ![b] = ~onPath[b]]
        /\ UNCHANGED <<managed, venv, rtOut, manifest, depVars, compiledOut, tplOut, instVars, regVars, scrVars>>

\* a call of is_runtime_available(name)
CallIsRuntimeAvailable ==
    \E name \in RuntimeNames :
        /\ rtOut' = [op |-> "is_runtime_available", arg |-> name, fs |-> FsNow,
                     checks |-> AvailabilityChecks(FsNow, name),
                     ret |-> IF IsRuntimeAvailable(FsNow, name) THEN "True" ELSE "False"]
        /\ UNCHANGED <<managed, venv, onPath, manifest, depVars, compiledOut, tplOut, instVars, regVars, scrVars>>

\* a call of get_available_runtime()
CallGetAvailableRuntime ==
    /\ rtOut' = [op |-> "get_available_runtime", arg |-> "None", fs |-> FsNow,
                 ret |-> GetAvailableRuntime(FsNow)]
    /\ UNCHANGED <<managed, venv, onPath, manifest, depVars, compiledOut, tplOut, instVars, regVars, scrVars>>

\* the outcomes of running `<binary> --version`: return code 0, another
\* return code, or an exception (a timeout, or an entry that cannot be run)
VersionOutcomes == {"zero", "nonzero", "raise"}

\* a directory cannot be executed
PossibleVersionOutcomes(kind) ==
    IF kind = "dir" THEN {"raise"} ELSE VersionOutcomes

\* str(binary_path)
BinaryPath(name) == <<"runtime_dir", Binary(name)>>

\* one record of list_runtimes, from its two reads of binary_path.exists()
\* and the outcome of the version subprocess
RuntimeStatus(name, seenFirst, seenSecond, outcome) ==
    [installed |-> seenFirst # "absent",
     path |-> IF seenSecond # "absent" THEN BinaryPath(name) ELSE <<"None">>,
     version |-> IF seenFirst = "absent" THEN "no_key"
                 ELSE IF outcome = "zero" THEN "stdout"
                 ELSE IF outcome = "nonzero" THEN "no_key"
                 ELSE "unknown"]

\* a call of list_runtimes()
CallListRuntimes ==
    \E outcomes \in [SupportedRuntimes -> VersionOutcomes] :
        /\ \A n \in SupportedRuntimes :
               outcomes[n] \in PossibleVersionOutcomes(managed[Binary(n)])
        /\ rtOut' = [op |-> "list_runtimes", arg |-> "None", fs |-> FsNow,
                     ret |-> [n \in SupportedRuntimes |->
                                 RuntimeStatus(n, managed[Binary(n)],
                                               managed[Binary(n)], outcomes[n])]]
        /\ UNCHANGED <<managed, venv, onPath, manifest, depVars, compiledOut, tplOut, instVars, regVars, scrVars>>

\* where a removal may raise: nowhere, while deleting the binary, or while
\* deleting the virtual environment
RemoveFaults == {"none", "binary", "venv"}

\* a removal that leaves the virtual environment of llm in place
RemoveRuntimeKeepsVenv(m, v, name, fault) ==
    IF name \notin SupportedRuntimes THEN [managed |-> m, venv |-> v, ret |-> "False"]
    ELSE IF m[Binary(name)] = "absent" THEN [managed |-> m, venv |-> v, ret |-> "False"]
    ELSE IF fault = "binary" THEN [managed |-> m, venv |-> v, ret |-> "False"]
    ELSE [managed |-> [m EXCEPT ![Binary(name)] = "absent"], venv |-> v, ret |-> "True"]

\* remove_runtime over the managed directory m and the virtual environment v
RemoveRuntime(m, v, name, fault) ==
    IF name \notin SupportedRuntimes THEN [managed |-> m, venv |-> v, ret |-> "False"]
    ELSE IF m[Binary(name)] = "absent" THEN [managed |-> m, venv |-> v, ret |-> "False"]
    ELSE IF fault = "binary" THEN [managed |-> m, venv |-> v, ret |-> "False"]
    ELSE LET removed == [m EXCEPT ![Binary(name)] = "absent"]
         IN  IF name = "llm" /\ v = "dir"
             THEN IF fault = "venv"
                  THEN [managed |-> removed, venv |-> v, ret |-> "False"]
                  ELSE [managed |-> removed, venv |-> "absent", ret |-> "True"]
             ELSE [managed |-> removed, venv |-> v, ret |-> "True"]

\* a call of remove_runtime(name)
CallRemoveRuntime ==
    \E name \in RuntimeNames, fault \in RemoveFaults :
        LET r == RemoveRuntime(managed, venv, name, fault)
        IN  /\ managed' = r.managed
            /\ venv' = r.venv
            /\ rtOut' = [op |-> "remove_runtime", arg |-> name, fs |-> FsNow,
                         venvBefore |-> venv,
                         after |-> [managed |-> r.managed, venv |-> r.venv],
                         ret |-> r.ret]
            /\ UNCHANGED <<onPath, manifest, depVars, compiledOut, tplOut, instVars, regVars, scrVars>>

\* the --version option: not given, or a version
Versions == {"None", "1.2"}

\* the outcomes of the setup script: return code 0, another one, or an
\* exception while starting it
SetupOutcomes == {"zero", "nonzero", "raise"}

\* script_args of setup_runtime
SetupArgs(version, vanilla) ==
    (IF version # "None" THEN <<version>> ELSE <<>>)
        \o (IF vanilla THEN <<"--vanilla">> ELSE <<>>)

\* a setup that runs the script a second time when it did not return 0
SetupRuntimeRetrying(name, version, vanilla, scriptsOk, outcome) ==
    IF name \notin SupportedRuntimes THEN [runs |-> <<>>, ret |-> "False"]
    ELSE IF ~scriptsOk THEN [runs |-> <<>>, ret |-> "False"]
    ELSE IF outcome = "zero"
    THEN [runs |-> <<SetupArgs(version, vanilla)>>, ret |-> "True"]
    ELSE [runs |-> <<SetupArgs(version, vanilla), SetupArgs(version, vanilla)>>,
          ret |-> "False"]

\* setup_runtime: the argument lists of the setup script runs, and the result
SetupRuntime(name, version, vanilla, scriptsOk, outcome) ==
    IF name \notin SupportedRuntimes THEN [runs |-> <<>>, ret |-> "False"]
    ELSE IF ~scriptsOk THEN [runs |-> <<>>, ret |-> "False"]
    ELSE [runs |-> <<SetupArgs(version, vanilla)>>,
          ret |-> IF outcome = "zero" THEN "True" ELSE "False"]

\* a call of setup_runtime(name, version, vanilla)
CallSetupRuntime ==
    \E name \in RuntimeNames, version \in Versions, vanilla \in BOOLEAN,
       scriptsOk \in BOOLEAN, outcome \in SetupOutcomes :
        LET r == SetupRuntime(name, version, vanilla, scriptsOk, outcome)
        IN  /\ rtOut' = [op |-> "setup_runtime", arg |-> name, version |-> version,
                         vanilla |-> vanilla, scriptsOk |-> scriptsOk,
                         outcome |-> outcome, runs |-> r.runs, ret |-> r.ret]
            /\ UNCHANGED <<managed, venv, onPath, manifest, depVars, compiledOut, tplOut, instVars, regVars, scrVars>>

\* process exit status of a runtime command whose manager call returned ret
ExitFor(ret) == IF ret = "True" THEN 0 ELSE 1

\* the command `runtime setup`
CliRuntimeSetup ==
    \E name \in SupportedRuntimes, version \in Versions, vanilla \in BOOLEAN,
       scriptsOk \in BOOLEAN, outcome \in SetupOutcomes :
        LET r == SetupRuntime(name, version, vanilla, scriptsOk, outcome)
        IN  /\ rtOut' = [op |-> "cli_setup", arg |-> name, version |-> version,
                         vanilla |-> vanilla, runs |-> r.runs, ret |-> r.ret,
                         exit |-> ExitFor(r.ret)]
            /\ UNCHANGED <<managed, venv, onPath, manifest, depVars, compiledOut, tplOut, instVars, regVars, scrVars>>

\* the command `runtime remove`
CliRuntimeRemove ==
    \E name \in SupportedRuntimes, fault \in RemoveFaults :
        LET r == RemoveRuntime(managed, venv, name, fault)
        IN  /\ managed' = r.managed
            /\ venv' = r.venv
            /\ rtOut' = [op |-> "cli_remove", arg |-> name, fs |-> FsNow,
                         venvBefore |-> venv,
                         after |-> [managed |-> r.managed, venv |-> r.venv],
                         ret |-> r.ret, exit |-> ExitFor(r.ret)]
            /\ UNCHANGED <<onPath, manifest, depVars, compiledOut, tplOut, instVars, regVars, scrVars>>

\* list_runtimes next to another process that sets up or removes runtimes:
\* the loop over supported_runtimes, one file-system read per step.
\* todo: the names still to be listed; step: the read that comes next;
\* seen: what the first read of the current name found

\* the start of list_runtimes()
ListRuntimesStart ==
    /\ rtOut.op = "none"
    /\ rtOut' = [op |-> "listing", todo |-> <<"codex", "llm">>, step |-> "installed",
                 seen |-> "absent", ret |-> <<>>]
    /\ UNCHANGED <<managed, venv, onPath, manifest, depVars, compiledOut, tplOut, instVars, regVars, scrVars>>

\* "installed": binary_path.exists()
ListRuntimesReadInstalled ==
    /\ rtOut.op = "listing"
    /\ rtOut.step = "installed"
    /\ rtOut' = [rtOut EXCEPT !.seen = managed[Binary(Head(rtOut.todo))],
                              !.step = "path"]
    /\ UNCHANGED <<managed, venv, onPath, manifest, depVars, compiledOut, tplOut, instVars, regVars, scrVars>>

\* "path": str(binary_path) if binary_path.exists() else None, then the
\* version subprocess when the record says installed; after the last name
\* the records are returned
ListRuntimesReadPath ==
    /\ rtOut.op = "listing"
    /\ rtOut.step = "path"
    /\ \E outcome \in VersionOutcomes :
        LET name == Head(rtOut.todo)
            status == RuntimeStatus(name, rtOut.seen, managed[Binary(name)], outcome)
        IN  rtOut' = [rtOut EXCEPT
                         !.op = IF Len(rtOut.todo) = 1 THEN "listed" ELSE "listing",
                         !.todo = Tail(rtOut.todo),
                         !.step = "installed",
                         !.seen = "absent",
                         !.ret = Append(rtOut.ret,
                                        [name |-> name, installed |-> status.installed,
                                         path |-> status.path,
                                         version |-> status.version])]
    /\ UNCHANGED <<managed, venv, onPath, manifest, depVars, compiledOut, tplOut, instVars, regVars, scrVars>>

\* another process removes a runtime while the listing runs: the binary of
\* remove_runtime's unlink or rmtree disappears
OtherProcessRemoves ==
    /\ rtOut.op = "listing"
    /\ \E b \in Binaries :
        /\ managed[b] # "absent"
        /\ managed' = [managed EXCEPT ![b] = "absent"]
    /\ UNCHANGED <<venv, onPath, rtOut, manifest, depVars, compiledOut, tplOut, instVars, regVars, scrVars>>

\* another process sets a runtime up while the listing runs: its setup script
\* puts the binary in place
OtherProcessSetsUp ==
    /\ rtOut.op = "listing"
    /\ \E b \in Binaries :
        /\ managed[b] = "absent"
        /\ managed' = [managed EXCEPT ![b] = "file"]
    /\ UNCHANGED <<venv, onPath, rtOut, manifest, depVars, compiledOut, tplOut, instVars, regVars, scrVars>>

(***************************************************************************)
(* The manifest (awd.yml)                                                  *)
(***************************************************************************)

\* upper bound on the length of dependencies.mcp
MaxDeps == 3

DepNames == {"a", "b", "c"}

RECURSIVE SeqsUpTo(_, _)
SeqsUpTo(S, n) ==
    IF n = 0 THEN {<<>>}
    ELSE LET shorter == SeqsUpTo(S, n - 1)
         IN  shorter \cup {Append(q, x) : q \in {r \in shorter : Len(r) = n - 1}, x \in S}

\* config:  "null" (an empty file loads as None) | "map"
\* deps:    "absent" (no dependencies key) | "null" (dependencies: with no value)
\*          | "no_mcp" (a mapping without mcp) | "mcp_null" | "mcp_list"
\* scripts: "absent" | "null" | "map"; table is the ordered script table
NoManifest ==
    [exists |-> FALSE, config |-> "null", deps |-> "absent", mcp |-> <<>>,
     scripts |-> "absent", table |-> <<>>]

ManifestIdle == manifest = NoManifest

\* no local install state and an empty registry
DepStateIdle == installedMarkers = {} /\ registryNames = {}

\* DependencyVerifier: local install state takes precedence over the registry
Classify(n) ==
    IF n \in installedMarkers THEN "already_installed"
    ELSE IF n \in registryNames THEN "installable"
    ELSE "not_found"

\* no compiled prompt files shown
CompiledIdle == compiledOut = [op |-> "none", files |-> <<>>, paths |-> <<>>]

\* no template loaded
TemplateIdle ==
    tplOut = [op |-> "none", content |-> <<>>, variables |-> <<>>, ret |-> <<>>]

DepsShapes == {"absent", "null", "no_mcp", "mcp_null", "mcp_list"}

InstallManifests ==
    {NoManifest}
    \cup {[NoManifest EXCEPT !.exists = TRUE]}
    \cup {[NoManifest EXCEPT !.exists = TRUE, !.config = "map", !.deps = d] :
             d \in DepsShapes \ {"mcp_list"}}
    \cup {[NoManifest EXCEPT !.exists = TRUE, !.config = "map", !.deps = "mcp_list",
                             !.mcp = l] : l \in SeqsUpTo(DepNames, MaxDeps)}

\* config.get('dependencies', {}).get('mcp', []): the value, or the
\* AttributeError of calling .get on None
McpDeps(m) ==
    IF m.config = "null" THEN [kind |-> "raise", list |-> <<>>]
    ELSE IF m.deps = "null" THEN [kind |-> "raise", list |-> <<>>]
    ELSE IF m.deps = "mcp_list" THEN [kind |-> "value", list |-> m.mcp]
    ELSE [kind |-> "value", list |-> <<>>]

(***************************************************************************)
(* The install command                                                     *)
(***************************************************************************)

InstallIdle ==
    /\ instPc = "idle"
    /\ instIdx = 0
    /\ attempts = <<>>
    /\ report = <<>>
    /\ instOutcome = "none"
    /\ instExit = -1

InstallExit(outcome, code) ==
    /\ instPc' = "exited"
    /\ instOutcome' = outcome
    /\ instExit' = code
    /\ UNCHANGED <<instIdx, attempts, report>>

\* install, up to the loop: the manifest check, reading dependencies.mcp,
\* importing the installer and creating the package manager
InstallBegin ==
    /\ instPc = "idle"
    /\ \E importOk \in BOOLEAN, factoryOk \in BOOLEAN :
        LET deps == McpDeps(manifest)
        IN  IF ~manifest.exists THEN InstallExit("ManifestNotFound", 1)
            ELSE IF deps.kind = "raise" THEN InstallExit("Error", 1)
            ELSE IF deps.list = <<>> THEN InstallExit("NoDependencies", 0)
            ELSE IF ~importOk THEN InstallExit("InstallerUnavailable", 0)
            ELSE IF ~factoryOk THEN InstallExit("Error", 1)
            ELSE /\ instPc' = "loop"
                 /\ instIdx' = 1
                 /\ UNCHANGED <<attempts, report, instOutcome, instExit>>
    /\ UNCHANGED <<rtVars, manifest, depVars, compiledOut, tplOut, regVars, scrVars>>

\* what the loop reports for one result of install_package
ReportFor(result) ==
    IF result = "success" THEN "installed"
    ELSE IF result = "unsuccessful" THEN "may_have_issues"
    ELSE "failed"

InstallResults == {"success", "unsuccessful", "raise"}

\* a loop that gives up at the first exception
InstallStepAbortsOnRaise ==
    /\ instPc = "loop"
    /\ instIdx <= Len(manifest.mcp)
    /\ \E result \in InstallResults :
        /\ attempts' = Append(attempts, manifest.mcp[instIdx])
        /\ report' = Append(report, [dep |-> manifest.mcp[instIdx],
                                     status |-> ReportFor(result)])
        /\ instIdx' = IF result = "raise" THEN Len(manifest.mcp) + 1 ELSE instIdx + 1
    /\ UNCHANGED <<instPc, instOutcome, instExit, rtVars, manifest, depVars, compiledOut, tplOut, regVars, scrVars>>

\* one iteration of `for dep in mcp_deps`: install_package('vscode', dep)
\* returns a successful result, returns an unsuccessful one, or raises
InstallStep ==
    /\ instPc = "loop"
    /\ instIdx <= Len(manifest.mcp)
    /\ \E result \in InstallResults :
        /\ attempts' = Append(attempts, manifest.mcp[instIdx])
        /\ report' = Append(report, [dep |-> manifest.mcp[instIdx],
                                     status |-> ReportFor(result)])
        /\ instIdx' = instIdx + 1
    /\ UNCHANGED <<instPc, instOutcome, instExit, rtVars, manifest, depVars, compiledOut, tplOut, regVars, scrVars>>

\* install, after the loop: "Dependencies installation complete!", and the
\* handler returns
InstallFinish ==
    /\ instPc = "loop"
    /\ instIdx > Len(manifest.mcp)
    /\ InstallExit("Complete", 0)
    /\ UNCHANGED <<rtVars, manifest, depVars, compiledOut, tplOut, regVars, scrVars>>


(***************************************************************************)
(* SimpleRegistryClient                                                    *)
(***************************************************************************)

\* upper bound on the number of servers after the unrelated ones
MaxTail == 2

\* list_servers(limit=100)
DefaultLimit == 100

DigitChars == <<"0", "1", "2", "3", "4", "5", "6", "7", "8", "9">>

\* str(n) for n >= 0
RECURSIVE Digits(_)
Digits(n) ==
    IF n < 10 THEN <<DigitChars[n + 1]>>
    ELSE Digits(n \div 10) \o <<DigitChars[(n % 10) + 1]>>

\* a string of the layout 8-4-4-4-12 made of the character c
MkUuid(c) ==
    Rep(c, 8) \o <<"-">> \o Rep(c, 4) \o <<"-">> \o Rep(c, 4) \o <<"-">>
        \o Rep(c, 4) \o <<"-">> \o Rep(c, 12)

NameFs == <<"f", "s">>
NameOther == <<"g", "i", "t">>
RefUuid == MkUuid("1")
\* 36 characters, 4 hyphens, not in the 8-4-4-4-12 layout
RefOddUuid == <<"-", "-", "-", "-">> \o Rep("a", 32)
\* 36 characters, 3 hyphens
Ref36ThreeHyphens == Rep("a", 8) \o <<"-">> \o Rep("a", 4) \o <<"-">>
                         \o Rep("a", 4) \o <<"-">> \o Rep("a", 17)
\* 36 characters, 5 hyphens
Ref36FiveHyphens == <<"-">> \o SubSeq(MkUuid("a"), 1, 35)
\* 35 characters, 4 hyphens
Ref35FourHyphens == SubSeq(MkUuid("a"), 1, 35)

References ==
    {NameFs, RefUuid, RefOddUuid, Ref36ThreeHyphens, Ref36FiveHyphens, Ref35FourHyphens}

ServerIds == {MkUuid(DigitChars[i + 1]) : i \in 1..MaxTail}
ServerNames == {NameFs, NameOther, RefUuid}

\* detail: what GET /v0/servers/{id} does for this server: "ok" answers with
\* the record, "error" with an error status or an empty body
TailServers ==
    {t \in SeqsUpTo([id : ServerIds, name : ServerNames, detail : {"ok", "error"}],
                    MaxTail) :
        \A i, j \in 1..Len(t) : i # j => t[i].id # t[j].id}

FillerServer(i) ==
    [id |-> <<"f">> \o Digits(i), name |-> <<"n">> \o Digits(i), detail |-> "ok"]

\* the unrelated servers, as many as the largest catalog needs
Fillers == [i \in 1..DefaultLimit |-> FillerServer(i)]

\* the catalog, in listing order
Servers(k, t) == SubSeq(Fillers, 1, k) \o t

FillerCounts == {0, DefaultLimit - 1, DefaultLimit}

Min(a, b) == IF a < b THEN a ELSE b

\* list_servers(limit, cursor): one page of at most limit servers after the
\* cursor position, and the next cursor (0 stands for None)
ListServers(servers, limit, cursor) ==
    LET last == Min(cursor + limit, Len(servers))
    IN  [servers |-> SubSeq(servers, cursor + 1, last),
         next_cursor |-> IF last < Len(servers) THEN last ELSE 0]

\* get_server_info(server_id): the record, or an exception (raise_for_status
\* on an error status, ValueError on an empty body)
GetServerInfo(servers, id) ==
    IF \E i \in 1..Len(servers) : servers[i].id = id /\ servers[i].detail = "ok"
    THEN LET i == CHOOSE i \in 1..Len(servers) :
                      servers[i].id = id /\ servers[i].detail = "ok"
         IN  [kind |-> "server", id |-> servers[i].id, name |-> servers[i].name]
    ELSE [kind |-> "raise", id |-> id, name |-> <<>>]

ReqGet(id) == [kind |-> "get", id |-> id]
ReqList == [kind |-> "list", id |-> <<>>]
RetNone == [kind |-> "none", id |-> <<>>, name |-> <<>>]
RetRaise == [kind |-> "raise", id |-> <<>>, name |-> <<>>]

\* a check that forgets the hyphen count
LooksLikeUuidLengthOnly(reference) == Len(reference) = 36

\* len(reference) == 36 and reference.count('-') == 4
LooksLikeUuid(reference) == Len(reference) = 36 /\ Count(reference, "-") = 4

\* a scan that gives up at the first detail request that fails
RECURSIVE ScanByNameStopsAtFailure(_, _, _, _)
ScanByNameStopsAtFailure(page, i, reference, servers) ==
    IF i > Len(page) THEN [log |-> <<>>, ret |-> RetNone]
    ELSE IF page[i].name = reference
    THEN LET info == GetServerInfo(servers, page[i].id)
         IN  IF info.kind = "server"
             THEN [log |-> <<ReqGet(page[i].id)>>, ret |-> info]
             ELSE [log |-> <<ReqGet(page[i].id)>>, ret |-> RetNone]
    ELSE ScanByNameStopsAtFailure(page, i + 1, reference, servers)

\* the for loop of find_server_by_reference over page[i..]: the detail
\* requests it makes and what it returns
RECURSIVE ScanByName(_, _, _, _)
ScanByName(page, i, reference, servers) ==
    IF i > Len(page) THEN [log |-> <<>>, ret |-> RetNone]
    ELSE IF page[i].name = reference
    THEN LET info == GetServerInfo(servers, page[i].id)
         IN  IF info.kind = "server"
             THEN [log |-> <<ReqGet(page[i].id)>>, ret |-> info]
             ELSE LET rest == ScanByName(page, i + 1, reference, servers)
                  IN  [log |-> <<ReqGet(page[i].id)>> \o rest.log, ret |-> rest.ret]
    ELSE ScanByName(page, i + 1, reference, servers)

\* strategy 2 of find_server_by_reference: list_servers(), then the scan
FindByName(reference, servers, listOk) ==
    IF ~listOk THEN [log |-> <<ReqList>>, ret |-> RetRaise]
    ELSE LET scan == ScanByName(ListServers(servers, DefaultLimit, 0).servers,
                                1, reference, servers)
         IN  [log |-> <<ReqList>> \o scan.log, ret |-> scan.ret]

\* a lookup whose strategy 1 lets the exception of get_server_info escape
FindServerByReferenceUncaught(reference, servers, listOk) ==
    IF LooksLikeUuid(reference)
    THEN LET info == GetServerInfo(servers, reference)
         IN  IF info.kind = "server"
             THEN [log |-> <<ReqGet(reference)>>, ret |-> info]
             ELSE [log |-> <<ReqGet(reference)>>, ret |-> RetRaise]
    ELSE FindByName(reference, servers, listOk)

\* find_server_by_reference: the requests it makes, in order, and its result.
\* listOk: whether the listing request succeeds (raise_for_status)
FindServerByReference(reference, servers, listOk) ==
    IF LooksLikeUuid(reference)
    THEN LET info == GetServerInfo(servers, reference)
         IN  IF info.kind = "server"
             THEN [log |-> <<ReqGet(reference)>>, ret |-> info]
             ELSE LET second == FindByName(reference, servers, listOk)
                  IN  [log |-> <<ReqGet(reference)>> \o second.log, ret |-> second.ret]
    ELSE FindByName(reference, servers, listOk)

RegistryIdle ==
    /\ fillerCount = 0
    /\ tail = <<>>
    /\ regOut = [op |-> "none"]

RegistryInit ==
    /\ fillerCount \in FillerCounts
    /\ tail \in TailServers
    /\ regOut = [op |-> "none"]

\* a call of find_server_by_reference(reference); one lookup per invocation
\* of the tool, which is a fresh process each time
CallFindServerByReference ==
    /\ regOut.op = "none"
    /\ \E reference \in References, listOk \in BOOLEAN :
        LET r == FindServerByReference(reference, Servers(fillerCount, tail), listOk)
        IN  regOut' = [op |-> "find_server_by_reference", ref |-> reference,
                       listOk |-> listOk, log |-> r.log, ret |-> r.ret]
    /\ UNCHANGED <<fillerCount, tail, rtVars, manifest, depVars, compiledOut, tplOut, instVars, scrVars>>


(***************************************************************************)
(* The run and preview commands                                            *)
(***************************************************************************)

\* upper bound on the number of --param tokens of one invocation
MaxParams == 2

\* manifests that differ in their scripts table
ScriptTables ==
    {<<>>,
     <<[name |-> "build", command |-> "make"]>>,
     <<[name |-> "start", command |-> "codex hello.prompt.md"]>>,
     <<[name |-> "start", command |-> "codex hello.prompt.md"],
       [name |-> "build", command |-> "make"]>>}

ScriptManifests ==
    {NoManifest}
    \cup {[NoManifest EXCEPT !.exists = TRUE]}
    \cup {[NoManifest EXCEPT !.exists = TRUE, !.config = "map", !.scripts = sh] :
             sh \in {"absent", "null"}}
    \cup {[NoManifest EXCEPT !.exists = TRUE, !.config = "map", !.scripts = "map",
                             !.table = t] : t \in ScriptTables}

\* the script_name argument: absent, empty, or a name
ScriptArgs == {"None", "", "start", "build", "deploy"}

\* --param tokens
ParamTokens ==
    {<<"a", "=", "1">>, <<"a", "=", "2">>, <<"b", "=", "x", "=", "y">>,
     <<"f", "l", "a", "g">>, <<"=", "v">>}

\* `x in table` for the ordered script table
HasScript(table, name) == \E i \in 1..Len(table) : table[i].name = name

\* _load_awd_config: None without a manifest or for an empty one
LoadAwdConfig(m) == IF m.exists /\ m.config = "map" THEN "map" ELSE "None"

\* a default that does not look at the manifest
GetDefaultScriptUnchecked(m) == [kind |-> "value", name |-> "start"]

\* _get_default_script: 'start' or None, or the TypeError of `'start' in None`
GetDefaultScript(m) ==
    IF LoadAwdConfig(m) = "None" \/ m.scripts = "absent"
    THEN [kind |-> "value", name |-> "None"]
    ELSE IF m.scripts = "null" THEN [kind |-> "raise", name |-> "None"]
    ELSE IF HasScript(m.table, "start") THEN [kind |-> "value", name |-> "start"]
    ELSE [kind |-> "value", name |-> "None"]

\* _list_available_scripts: config['scripts'], or {} without one
ListAvailableScripts(m) ==
    IF LoadAwdConfig(m) = "None" \/ m.scripts # "map" THEN <<>> ELSE m.table

\* ScriptRunner.list_scripts: the manifest's script table
ListScripts(m) ==
    IF m.exists /\ m.config = "map" /\ m.scripts = "map" THEN m.table ELSE <<>>

\* str.find(c) + 1: the position of the first c, 0 when there is none
RECURSIVE FirstIndex(_, _, _)
FirstIndex(p, c, i) ==
    IF i > Len(p) THEN 0
    ELSE IF p[i] = c THEN i
    ELSE FirstIndex(p, c, i + 1)

\* a parse in which the first value given for a name is kept
RECURSIVE ParseParamsFirstWins(_, _, _)
ParseParamsFirstWins(tokens, i, params) ==
    IF i > Len(tokens) THEN params
    ELSE LET p == tokens[i]
             eq == FirstIndex(p, "=", 1)
         IN  IF eq = 0 THEN ParseParamsFirstWins(tokens, i + 1, params)
             ELSE LET name == SubSeq(p, 1, eq - 1)
                      value == SubSeq(p, eq + 1, Len(p))
                  IN  ParseParamsFirstWins(tokens, i + 1,
                          [n \in (DOMAIN params) \cup {name} |->
                              IF n \in DOMAIN params THEN params[n] ELSE value])

\* the loop `for p in param` from token i on: a token without '=' is
\* skipped, the others are split at the first '=' and stored by name
RECURSIVE ParseParams(_, _, _)
ParseParams(tokens, i, params) ==
    IF i > Len(tokens) THEN params
    ELSE LET p == tokens[i]
             eq == FirstIndex(p, "=", 1)
         IN  IF eq = 0 THEN ParseParams(tokens, i + 1, params)
             ELSE LET name == SubSeq(p, 1, eq - 1)
                      value == SubSeq(p, eq + 1, Len(p))
                  IN  ParseParams(tokens, i + 1,
                          [n \in (DOMAIN params) \cup {name} |->
                              IF n = name THEN value ELSE params[n]])

\* the empty dict
NoParams == [n \in {} |-> <<>>]

NotSurfaced == [shown |-> FALSE, scripts |-> <<>>]

ScriptIdle ==
    /\ scr = [cmd |-> "none", pc |-> "idle", arg |-> "None", tokens |-> <<>>,
              name |-> "None", params |-> NoParams, failure |-> "none", exit |-> -1]
    /\ stages = <<>>
    /\ calls = <<>>
    /\ surfaced = NotSurfaced

Falsy(arg) == arg = "None" \/ arg = ""

\* the handler ends: sys.exit(code), or a return (code 0)
ScrEnded(failure, code) == [scr EXCEPT !.pc = "exited", !.failure = failure, !.exit = code]

\* `awd run` or `awd preview` is invoked with its arguments
ScriptInvoke ==
    /\ scr.pc = "idle"
    /\ \E cmd \in {"run", "preview"}, arg \in ScriptArgs,
          tokens \in SeqsUpTo(ParamTokens, MaxParams) :
        scr' = [scr EXCEPT !.cmd = cmd, !.pc = "RESOLVE_NAME", !.arg = arg,
                           !.tokens = tokens]
    /\ stages' = <<"RESOLVE_NAME">>
    /\ UNCHANGED <<calls, surfaced, rtVars, manifest, depVars, compiledOut, tplOut, instVars, regVars>>

\* run, up to the script runner: the name is resolved (the available scripts
\* are listed when there is none) and the parameters are parsed
RunResolve ==
    /\ scr.cmd = "run"
    /\ scr.pc = "RESOLVE_NAME"
    /\ LET default == GetDefaultScript(manifest)
       IN  IF ~Falsy(scr.arg)
           THEN /\ scr' = [scr EXCEPT !.pc = "CALL_RUNNER", !.name = scr.arg,
                                      !.params = ParseParams(scr.tokens, 1, NoParams)]
                /\ UNCHANGED <<stages, surfaced>>
           ELSE IF default.kind = "raise"
           THEN /\ scr' = ScrEnded("Error", 1)
                /\ stages' = Append(stages, "FAILED")
                /\ UNCHANGED surfaced
           ELSE IF default.name = "None"
           THEN /\ scr' = ScrEnded("NoScriptSpecified", 1)
                /\ stages' = Append(stages, "FAILED")
                /\ surfaced' = [shown |-> TRUE, scripts |-> ListAvailableScripts(manifest)]
           ELSE /\ scr' = [scr EXCEPT !.pc = "CALL_RUNNER", !.name = default.name,
                                      !.params = ParseParams(scr.tokens, 1, NoParams)]
                /\ UNCHANGED <<stages, surfaced>>
    /\ UNCHANGED <<calls, rtVars, manifest, depVars, compiledOut, tplOut, instVars, regVars>>

\* run: ScriptRunner is imported and run_script(script_name, params) is
\* called; an ImportError is reported as a warning and the handler returns
RunCallRunner ==
    /\ scr.cmd = "run"
    /\ scr.pc = "CALL_RUNNER"
    /\ \E importOk \in BOOLEAN :
        IF importOk
        THEN /\ scr' = [scr EXCEPT !.pc = "LOAD_COMMAND"]
             /\ calls' = Append(calls, "run_script")
             /\ stages' = Append(stages, "LOAD_COMMAND")
        ELSE /\ scr' = ScrEnded("RunnerUnavailable", 0)
             /\ UNCHANGED <<calls, stages>>
    /\ UNCHANGED <<surfaced, rtVars, manifest, depVars, compiledOut, tplOut, instVars, regVars>>

\* run_script, LOAD_COMMAND: the name is looked up in the script table
RunLoadCommand ==
    /\ scr.cmd = "run"
    /\ scr.pc = "LOAD_COMMAND"
    /\ IF HasScript(ListScripts(manifest), scr.name)
       THEN /\ scr' = [scr EXCEPT !.pc = "COMPILE"]
            /\ stages' = Append(stages, "COMPILE")
       ELSE /\ scr' = ScrEnded("ScriptNotFound", 1)
            /\ stages' = Append(stages, "FAILED")
    /\ UNCHANGED <<calls, surfaced, rtVars, manifest, depVars, compiledOut, tplOut, instVars, regVars>>

\* run_script, COMPILE: the prompt compiler renders the command, or fails
RunCompile ==
    /\ scr.cmd = "run"
    /\ scr.pc = "COMPILE"
    /\ \E ok \in BOOLEAN :
        IF ok
        THEN /\ scr' = [scr EXCEPT !.pc = "EXECUTE"]
             /\ stages' = Append(stages, "EXECUTE")
        ELSE /\ scr' = ScrEnded("Error", 1)
             /\ stages' = Append(stages, "FAILED")
    /\ UNCHANGED <<calls, surfaced, rtVars, manifest, depVars, compiledOut, tplOut, instVars, regVars>>

\* run_script, EXECUTE: the compiled command runs as a subprocess; run exits
\* 0 after a successful run_script and 1 otherwise
RunExecute ==
    /\ scr.cmd = "run"
    /\ scr.pc = "EXECUTE"
    /\ calls' = Append(calls, "subprocess")
    /\ \E returncode \in {0, 1} :
        IF returncode = 0
        THEN /\ scr' = ScrEnded("none", 0)
             /\ stages' = Append(stages, "DONE")
        ELSE /\ scr' = ScrEnded("ExecutionFailed", 1)
             /\ stages' = Append(stages, "FAILED")
    /\ UNCHANGED <<surfaced, rtVars, manifest, depVars, compiledOut, tplOut, instVars, regVars>>

\* preview, up to the script runner: the name is resolved and the parameters
\* are parsed
PreviewResolve ==
    /\ scr.cmd = "preview"
    /\ scr.pc = "RESOLVE_NAME"
    /\ LET default == GetDefaultScript(manifest)
       IN  IF ~Falsy(scr.arg)
           THEN /\ scr' = [scr EXCEPT !.pc = "LOAD_COMMAND", !.name = scr.arg,
                                      !.params = ParseParams(scr.tokens, 1, NoParams)]
                /\ UNCHANGED stages
           ELSE IF default.kind = "raise"
           THEN /\ scr' = ScrEnded("Error", 1)
                /\ stages' = Append(stages, "FAILED")
           ELSE IF default.name = "None"
           THEN /\ scr' = ScrEnded("NoScriptSpecified", 1)
                /\ stages' = Append(stages, "FAILED")
           ELSE /\ scr' = [scr EXCEPT !.pc = "LOAD_COMMAND", !.name = default.name,
                                      !.params = ParseParams(scr.tokens, 1, NoParams)]
                /\ UNCHANGED stages
    /\ UNCHANGED <<calls, surfaced, rtVars, manifest, depVars, compiledOut, tplOut, instVars, regVars>>

\* a preview that compiles whatever name it was given
PreviewLoadCommandUnchecked ==
    /\ scr.cmd = "preview"
    /\ scr.pc = "LOAD_COMMAND"
    /\ calls' = Append(calls, "list_scripts")
    /\ scr' = [scr EXCEPT !.pc = "COMPILE"]
    /\ stages' = stages \o <<"LOAD_COMMAND", "COMPILE">>
    /\ UNCHANGED <<surfaced, rtVars, manifest, depVars, compiledOut, tplOut, instVars, regVars>>

\* preview: ScriptRunner is imported, list_scripts() is called and the name
\* is looked up in what it returns
PreviewLoadCommand ==
    /\ scr.cmd = "preview"
    /\ scr.pc = "LOAD_COMMAND"
    /\ \E importOk \in BOOLEAN, listed \in {"ok", "raise", "raise_import"} :
        IF ~importOk
        THEN /\ scr' = ScrEnded("RunnerUnavailable", 0)
             /\ UNCHANGED <<calls, stages>>
        ELSE /\ calls' = Append(calls, "list_scripts")
             /\ IF listed = "raise_import"
                THEN /\ scr' = ScrEnded("RunnerUnavailable", 0)
                     /\ stages' = Append(stages, "LOAD_COMMAND")
                ELSE IF listed = "raise"
                THEN /\ scr' = ScrEnded("Error", 1)
                     /\ stages' = stages \o <<"LOAD_COMMAND", "FAILED">>
                ELSE IF ~HasScript(ListScripts(manifest), scr.name)
                THEN /\ scr' = ScrEnded("ScriptNotFound", 1)
                     /\ stages' = stages \o <<"LOAD_COMMAND", "FAILED">>
                ELSE /\ scr' = [scr EXCEPT !.pc = "COMPILE"]
                     /\ stages' = stages \o <<"LOAD_COMMAND", "COMPILE">>
    /\ UNCHANGED <<surfaced, rtVars, manifest, depVars, compiledOut, tplOut, instVars, regVars>>

\* what a call of _auto_compile_prompts does
CompileOutcomes == {"files", "nofiles", "raise", "raise_import", "raise_name"}

\* how preview ends after the compile calls it made: first is the call of
\* the panel display, second the call of the plain display that an
\* ImportError or NameError of the first falls back to
PreviewEnd(first, second) ==
    IF first \in {"files", "nofiles"} THEN [failure |-> "none", exit |-> 0]
    ELSE IF first = "raise" THEN [failure |-> "Error", exit |-> 1]
    ELSE IF second \in {"files", "nofiles"} THEN [failure |-> "none", exit |-> 0]
    ELSE IF second = "raise_import" THEN [failure |-> "RunnerUnavailable", exit |-> 0]
    ELSE [failure |-> "Error", exit |-> 1]

\* a preview that goes on to run the script it compiled
PreviewCompileThenRun ==
    /\ scr.cmd = "preview"
    /\ scr.pc = "COMPILE"
    /\ \E first \in CompileOutcomes, second \in CompileOutcomes :
        LET end == PreviewEnd(first, second)
        IN  /\ calls' = calls \o
                   (IF first \in {"raise_import", "raise_name"}
                    THEN <<"_auto_compile_prompts", "_auto_compile_prompts">>
                    ELSE <<"_auto_compile_prompts">>)
                   \o (IF end.failure = "none" THEN <<"run_script">> ELSE <<>>)
            /\ scr' = ScrEnded(end.failure, end.exit)
            /\ stages' = IF end.exit = 1 THEN Append(stages, "FAILED")
                         ELSE IF end.failure = "none" THEN Append(stages, "EXECUTE")
                         ELSE stages
    /\ UNCHANGED <<surfaced, rtVars, manifest, depVars, compiledOut, tplOut, instVars, regVars>>

\* preview: _auto_compile_prompts(command, params) is called and the result
\* is displayed; the handler returns
PreviewCompile ==
    /\ scr.cmd = "preview"
    /\ scr.pc = "COMPILE"
    /\ \E first \in CompileOutcomes, second \in CompileOutcomes :
        LET end == PreviewEnd(first, second)
        IN  /\ calls' = calls \o
                   (IF first \in {"raise_import", "raise_name"}
                    THEN <<"_auto_compile_prompts", "_auto_compile_prompts">>
                    ELSE <<"_auto_compile_prompts">>)
            /\ scr' = ScrEnded(end.failure, end.exit)
            /\ stages' = IF end.exit = 1 THEN Append(stages, "FAILED") ELSE stages
    /\ UNCHANGED <<surfaced, rtVars, manifest, depVars, compiledOut, tplOut, instVars, regVars>>

(***************************************************************************)
(* Template loading and placeholder substitution                           *)
(***************************************************************************)

\* upper bound on the number of variables passed to _load_template_file
MaxVars == 2

\* f'{{{{{var_name}}}}}': the name between two pairs of braces
Placeholder(name) == <<"{", "{">> \o name \o <<"}", "}">>

\* str.replace(pat, val): every non-overlapping occurrence of pat, found
\* from the left, is replaced by val; the inserted text is not searched
RECURSIVE Replace(_, _, _)
Replace(content, pat, val) ==
    IF Len(content) < Len(pat) THEN content
    ELSE IF SubSeq(content, 1, Len(pat)) = pat
    THEN val \o Replace(SubSeq(content, Len(pat) + 1, Len(content)), pat, val)
    ELSE <<Head(content)>> \o Replace(Tail(content), pat, val)

\* the loop `for var_name, var_value in variables.items()` from entry i on
RECURSIVE SubstituteFrom(_, _, _)
SubstituteFrom(content, variables, i) ==
    IF i > Len(variables) THEN content
    ELSE SubstituteFrom(Replace(content, Placeholder(variables[i].name),
                                variables[i].value),
                        variables, i + 1)

\* _load_template_file, once the file has been read
LoadTemplateFile(content, variables) == SubstituteFrom(content, variables, 1)

VarNames == {<<"a">>, <<"b">>, <<"n">>}

VarValues == {<<"A", "d", "a">>, <<>>, <<"X">>, Placeholder(<<"b">>)}

\* keyword arguments: an ordered mapping, no name twice
VariableLists ==
    {v \in SeqsUpTo([name : VarNames, value : VarValues], MaxVars) :
        \A i, j \in 1..Len(v) : v[i].name = v[j].name => i = j}

TemplateContents ==
    { <<"H", "i", " ">> \o Placeholder(<<"n">>) \o <<",", " ">> \o Placeholder(<<"m">>),
      Placeholder(<<"a">>) \o <<" ">> \o Placeholder(<<"b">>) \o <<" ">> \o Placeholder(<<"a">>),
      Placeholder(<<"a">>),
      <<"{", "{", "a", "}", " ", "{", "a", "}", "}">>,
      <<"p", "l", "a", "i", "n">> }

TemplateInit ==
    \E c \in TemplateContents, v \in VariableLists :
        tplOut = [op |-> "none", content |-> c, variables |-> v, ret |-> <<>>]

\* a call of _load_template_file on an existing template file
CallLoadTemplateFile ==
    /\ tplOut.op = "none"
    /\ tplOut' = [tplOut EXCEPT !.op = "_load_template_file",
                                !.ret = LoadTemplateFile(tplOut.content, tplOut.variables)]
    /\ UNCHANGED <<rtVars, manifest, depVars, compiledOut, instVars, regVars, scrVars>>

(***************************************************************************)
(* Compiled output paths                                                   *)
(***************************************************************************)

\* upper bound on the number of prompt files of one command
MaxFiles == 2

\* a prompt file reference: the directories of its path and its file name,
\* the name as text in which "prompt", "md" and "txt" stand for those letters
PromptDirs == {<<>>, <<"a">>, <<"b">>}

PromptNames ==
    { <<"h", ".", "prompt", ".", "md">>,
      <<"g", ".", "prompt", ".", "md">>,
      <<"h", ".", "prompt", ".", "prompt", ".", "md">> }

PromptFiles == [dir : PromptDirs, name : PromptNames]

\* the prompt files of a command: distinct references
PromptFileLists ==
    {l \in SeqsUpTo(PromptFiles, MaxFiles) :
        \A i, j \in 1..Len(l) : l[i] = l[j] => i = j}

\* the position of the last dot of a file name, 0 when there is none
RECURSIVE LastDot(_, _)
LastDot(name, i) ==
    IF i = 0 THEN 0
    ELSE IF name[i] = "." THEN i
    ELSE LastDot(name, i - 1)

\* Path(prompt_file).stem: the final path component without its last suffix
Stem(file) ==
    LET dot == LastDot(file.name, Len(file.name))
    IN  IF dot <= 1 THEN file.name ELSE SubSeq(file.name, 1, dot - 1)

\* Path(prompt_file).stem.replace('.prompt', '') + '.txt'
OutputName(file) == Replace(Stem(file), <<".", "prompt">>, <<>>) \o <<".", "txt">>

\* Path('.awd/compiled') / output_name
CompiledPath(file) == [dir |-> <<".awd", "compiled">>, name |-> OutputName(file)]

CompiledInit ==
    \E l \in PromptFileLists :
        compiledOut = [op |-> "none", files |-> l, paths |-> <<>>]

\* preview: the loop over compiled_prompt_files that derives the compiled
\* path of each
PreviewCompiledPaths ==
    /\ compiledOut.op = "none"
    /\ compiledOut' = [compiledOut EXCEPT
                          !.op = "preview",
                          !.paths = [i \in 1..Len(compiledOut.files) |->
                                        CompiledPath(compiledOut.files[i])]]
    /\ UNCHANGED <<rtVars, manifest, depVars, tplOut, instVars, regVars, scrVars>>

(***************************************************************************)
(* Specifications                                                          *)
(***************************************************************************)

NextRuntime ==
    \/ EnvChangeManaged
    \/ EnvChangeVenv
    \/ EnvChangePath
    \/ CallIsRuntimeAvailable
    \/ CallGetAvailableRuntime
    \/ CallListRuntimes
    \/ CallRemoveRuntime
    \/ CallSetupRuntime
    \/ CliRuntimeSetup
    \/ CliRuntimeRemove

InitRuntime ==
    /\ RuntimeInit /\ ManifestIdle /\ InstallIdle /\ RegistryIdle /\ ScriptIdle
    /\ DepStateIdle /\ TemplateIdle /\ CompiledIdle

SpecRuntime == InitRuntime /\ [][NextRuntime]_vars

NextListing ==
    \/ ListRuntimesStart
    \/ ListRuntimesReadInstalled
    \/ ListRuntimesReadPath
    \/ OtherProcessRemoves
    \/ OtherProcessSetsUp

InitListing ==
    /\ RuntimeInit /\ ManifestIdle /\ InstallIdle /\ RegistryIdle /\ ScriptIdle
    /\ DepStateIdle /\ TemplateIdle /\ CompiledIdle

SpecListing == InitListing /\ [][NextListing]_vars

NextInstall ==
    \/ InstallBegin
    \/ InstallStep
    \/ InstallFinish

InitInstall ==
    /\ RuntimeIdle
    /\ manifest \in InstallManifests
    /\ installedMarkers \in SUBSET DepNames
    /\ registryNames \in SUBSET DepNames
    /\ InstallIdle
    /\ RegistryIdle
    /\ ScriptIdle
    /\ TemplateIdle
    /\ CompiledIdle

SpecInstall == InitInstall /\ [][NextInstall]_vars

NextRegistry == CallFindServerByReference

InitRegistry ==
    /\ RuntimeIdle /\ ManifestIdle /\ InstallIdle /\ RegistryInit /\ ScriptIdle
    /\ DepStateIdle /\ TemplateIdle /\ CompiledIdle

SpecRegistry == InitRegistry /\ [][NextRegistry]_vars

NextScript ==
    \/ ScriptInvoke
    \/ RunResolve
    \/ RunCallRunner
    \/ RunLoadCommand
    \/ RunCompile
    \/ RunExecute
    \/ PreviewResolve
    \/ PreviewLoadCommand
    \/ PreviewCompile

InitScript ==
    /\ RuntimeIdle
    /\ manifest \in ScriptManifests
    /\ DepStateIdle
    /\ InstallIdle
    /\ RegistryIdle
    /\ ScriptIdle
    /\ TemplateIdle
    /\ CompiledIdle

SpecScript == InitScript /\ [][NextScript]_vars

NextCompiled == PreviewCompiledPaths

InitCompiled ==
    /\ RuntimeIdle /\ ManifestIdle /\ DepStateIdle /\ InstallIdle
    /\ RegistryIdle /\ ScriptIdle /\ TemplateIdle /\ CompiledInit

SpecCompiled == InitCompiled /\ [][NextCompiled]_vars

NextTemplate == CallLoadTemplateFile

InitTemplate ==
    /\ RuntimeIdle /\ ManifestIdle /\ DepStateIdle /\ InstallIdle
    /\ RegistryIdle /\ ScriptIdle /\ TemplateInit /\ CompiledIdle

SpecTemplate == InitTemplate /\ [][NextTemplate]_vars

(***************************************************************************)
(* Claims about the RuntimeManager                                         *)
(***************************************************************************)

\* C1: get_available_runtime() returns the first name of the fixed order
\* [codex, llm] for which is_runtime_available is true, returns none exactly
\* when no runtime is available, and returns codex when both are available.
C1_FirstAvailableInPreferenceOrder ==
    rtOut.op = "get_available_runtime" =>
        LET order == <<"codex", "llm">>
            av(n) == IsRuntimeAvailable(rtOut.fs, n)
        IN  /\ (rtOut.ret = "None") <=> (\A i \in 1..Len(order) : ~av(order[i]))
            /\ rtOut.ret # "None" =>
                   \E i \in 1..Len(order) :
                       /\ order[i] = rtOut.ret
                       /\ av(order[i])
                       /\ \A j \in 1..(i - 1) : ~av(order[j])
            /\ (av("codex") /\ av("llm")) => rtOut.ret = "codex"

\* both runtimes are available and the query has answered
C1_Witness ==
    /\ rtOut.op = "get_available_runtime"
    /\ IsRuntimeAvailable(rtOut.fs, "codex")
    /\ IsRuntimeAvailable(rtOut.fs, "llm")
    /\ rtOut.fs.managed["llm"] = "file"
    /\ rtOut.ret = "codex"

(***************************************************************************)
(* Claims about the install command                                        *)
(***************************************************************************)

\* C2: a batch install in which some dependency's install raises or reports
\* failure ends with the others reported installed, the failing one reported
\* failed, and a nonzero exit status of the command.
C2_FailedBatchExitsNonzero ==
    (/\ instPc = "exited"
     /\ \E i \in 1..Len(report) : report[i].status # "installed") =>
        instExit # 0

\* C3: the loop attempts every dependency exactly once, in declaration
\* order; whatever entry i did (raised, reported failure, succeeded) the
\* entries after it are attempted.
C3_EveryDependencyAttemptedInOrder ==
    /\ instPc = "loop" =>
          /\ instIdx \in 1..(Len(manifest.mcp) + 1)
          /\ attempts = SubSeq(manifest.mcp, 1, instIdx - 1)
    /\ Len(report) = Len(attempts)
    /\ \A i \in 1..Len(report) : report[i].dep = attempts[i]
    /\ (instPc = "exited" /\ instOutcome = "Complete") => attempts = manifest.mcp

\* [a, b, c] was installed to the end although b raised
C3_Witness ==
    /\ instPc = "exited"
    /\ instOutcome = "Complete"
    /\ manifest.mcp = <<"a", "b", "c">>
    /\ attempts = <<"a", "b", "c">>
    /\ report[1].status = "installed"
    /\ report[2].status = "failed"
    /\ report[3].status = "installed"

(***************************************************************************)
(* Claims about the registry client                                        *)
(***************************************************************************)

\* C4: for a reference of 36 characters with exactly 4 hyphens the first
\* request is the by-identifier lookup of the reference, before any listing
\* request, whatever the listing holds; for any other reference the first
\* request is the listing.
C4_IdentifierLookupFirst ==
    regOut.op = "find_server_by_reference" =>
        /\ Len(regOut.log) >= 1
        /\ IF Len(regOut.ref) = 36 /\ Count(regOut.ref, "-") = 4
           THEN regOut.log[1] = ReqGet(regOut.ref)
           ELSE regOut.log[1] = ReqList

\* a UUID-shaped reference that is no identifier but is the name of a listed
\* server: looked up by identifier first, then found by name
C4_Witness ==
    /\ regOut.op = "find_server_by_reference"
    /\ regOut.ref = RefUuid
    /\ Len(tail) >= 1
    /\ tail[1].name = RefUuid
    /\ tail[1].id # RefUuid
    /\ Len(regOut.log) = 3
    /\ regOut.log[1] = ReqGet(RefUuid)
    /\ regOut.log[2] = ReqList
    /\ regOut.ret.kind = "server"

\* whether strategy 1 yields a server for the reference
YieldsById(reference, servers) ==
    /\ Len(reference) = 36
    /\ Count(reference, "-") = 4
    /\ \E i \in 1..Len(servers) :
           servers[i].id = reference /\ servers[i].detail = "ok"

\* whether the scan of the first page yields a server for the reference
YieldsByName(reference, servers) ==
    \E i \in 1..Min(DefaultLimit, Len(servers)) :
        servers[i].name = reference /\ servers[i].detail = "ok"

\* C5: when neither the by-identifier lookup nor the exact-name scan yields
\* a server the lookup returns none, not an error, also when the
\* by-identifier lookup of a UUID-shaped reference failed; the only error the
\* lookup raises is that of a failed listing request.
C5_NotFoundIsNone ==
    regOut.op = "find_server_by_reference" =>
        LET servers == Servers(fillerCount, tail)
            yields == YieldsById(regOut.ref, servers) \/ YieldsByName(regOut.ref, servers)
        IN  /\ (regOut.listOk /\ ~yields) => regOut.ret = RetNone
            /\ regOut.ret.kind = "raise" =>
                   ~regOut.listOk /\ ~YieldsById(regOut.ref, servers)

\* a UUID-shaped reference, unknown as an identifier and as a name
C5_Witness ==
    /\ regOut.op = "find_server_by_reference"
    /\ regOut.ref = RefUuid
    /\ regOut.listOk
    /\ regOut.log = <<ReqGet(RefUuid), ReqList>>
    /\ Len(tail) >= 1
    /\ regOut.ret = RetNone

\* C6: every server of the registry whose name equals the reference and
\* whose detail record can be fetched is found by the name scan, however many
\* servers the registry holds and on whichever page the server is listed.
C6_NameMatchFoundOnAnyPage ==
    regOut.op = "find_server_by_reference" =>
        LET servers == Servers(fillerCount, tail)
        IN  (/\ regOut.listOk
             /\ ~YieldsById(regOut.ref, servers)
             /\ \E i \in 1..Len(servers) :
                    servers[i].name = regOut.ref /\ servers[i].detail = "ok") =>
                regOut.ret.kind = "server"

(***************************************************************************)
(* Claims about the run and preview commands                               *)
(***************************************************************************)

Range(q) == {q[i] : i \in 1..Len(q)}

\* the manifest defines no scripts.start
NoDefault(m) ==
    ~(m.exists /\ m.config = "map" /\ m.scripts = "map"
      /\ \E i \in 1..Len(m.table) : m.table[i].name = "start")

\* `scripts:` without a value, which loads as None
ScriptsNull(m) == m.exists /\ m.config = "map" /\ m.scripts = "null"

C8_ScriptsSurfacedOnNoScriptSpecified ==
    scr.failure = "NoScriptSpecified" =>
        /\ surfaced.shown
        /\ surfaced.scripts = ListAvailableScripts(manifest)

\* C9: preview never reaches EXECUTE: it never calls run_script and never
\* runs a subprocess, and a preview that called the script runner and ended
\* without error ended with a compile call.
C9_PreviewNeverExecutes ==
    scr.cmd = "preview" =>
        /\ "EXECUTE" \notin Range(stages)
        /\ "DONE" \notin Range(stages)
        /\ "run_script" \notin Range(calls)
        /\ "subprocess" \notin Range(calls)
        /\ (scr.pc = "exited" /\ scr.failure = "none") =>
               /\ scr.exit = 0
               /\ calls # <<>>
               /\ calls[Len(calls)] = "_auto_compile_prompts"
               /\ stages = <<"RESOLVE_NAME", "LOAD_COMMAND", "COMPILE">>

\* a preview of an existing script with parameters has compiled and ended
C9_Witness ==
    /\ scr.cmd = "preview"
    /\ scr.arg = "start"
    /\ scr.params # NoParams
    /\ scr.pc = "exited"
    /\ scr.failure = "none"
    /\ calls = <<"list_scripts", "_auto_compile_prompts">>

StageOrder == <<"RESOLVE_NAME", "LOAD_COMMAND", "COMPILE", "EXECUTE", "DONE">>

\* C10: a run invocation enters RESOLVE_NAME, LOAD_COMMAND, COMPILE, EXECUTE,
\* DONE in that order, without skipping or revisiting a stage, may enter
\* FAILED from any of them, and ends in DONE or in FAILED.
C10_StagesInOrderEndingDoneOrFailed ==
    scr.cmd = "run" =>
        /\ \E k \in 1..Len(StageOrder) :
               \/ stages = SubSeq(StageOrder, 1, k)
               \/ k < Len(StageOrder) /\ stages = Append(SubSeq(StageOrder, 1, k), "FAILED")
        /\ scr.pc = "exited" => stages[Len(stages)] \in {"DONE", "FAILED"}

\* the manifest's script table has no entry of that name
NameAbsent(m, name) ==
    ~(m.exists /\ m.config = "map" /\ m.scripts = "map"
      /\ \E i \in 1..Len(m.table) : m.table[i].name = name)

\* C11: a script name that is absent from the manifest's script table fails
\* with ScriptNotFound and exit status 1, before any prompt compilation or
\* execution.
C11_AbsentScriptFailsBeforeCompile ==
    (scr.cmd # "none" /\ scr.name # "None" /\ NameAbsent(manifest, scr.name)) =>
        /\ "_auto_compile_prompts" \notin Range(calls)
        /\ "subprocess" \notin Range(calls)
        /\ "COMPILE" \notin Range(stages)
        /\ "EXECUTE" \notin Range(stages)
        /\ scr.pc \notin {"COMPILE", "EXECUTE"}
        /\ scr.pc = "exited" =>
               /\ scr.failure \in {"ScriptNotFound", "RunnerUnavailable", "Error"}
               /\ scr.failure = "ScriptNotFound" => scr.exit = 1
        /\ (scr.cmd = "preview" /\ scr.pc = "exited" /\ scr.failure = "ScriptNotFound") =>
               calls = <<"list_scripts">>

\* preview of a name the script table does not hold has failed
C11_Witness ==
    /\ scr.cmd = "preview"
    /\ scr.arg = "deploy"
    /\ Len(manifest.table) = 2
    /\ scr.pc = "exited"
    /\ scr.failure = "ScriptNotFound"
    /\ scr.exit = 1
    /\ calls = <<"list_scripts">>

\* the tokens of a command line that contain an equals sign
HasEquals(t) == \E k \in 1..Len(t) : t[k] = "="

\* the position of the first equals sign of a token that has one
FirstEquals(t) ==
    CHOOSE k \in 1..Len(t) : t[k] = "=" /\ \A j \in 1..(k - 1) : t[j] # "="

\* the text of a token before its first equals sign, and the text after it
NameOfToken(t) == SubSeq(t, 1, FirstEquals(t) - 1)
ValueOfToken(t) == SubSeq(t, FirstEquals(t) + 1, Len(t))

\* the last position of the command line that gives a value to the name
LastGiving(tokens, n) ==
    CHOOSE i \in 1..Len(tokens) :
        /\ HasEquals(tokens[i]) /\ NameOfToken(tokens[i]) = n
        /\ \A j \in (i + 1)..Len(tokens) :
               ~(HasEquals(tokens[j]) /\ NameOfToken(tokens[j]) = n)

\* C16: parameters are parsed from name=value tokens: a token without an equals
\* sign is ignored, a token is split at its first equals sign, and the last
\* value given for a name wins; run and preview parse identically.
C16_ParamsParsedFromTokens ==
    (scr.cmd \in {"run", "preview"} /\ scr.name # "None") =>
        /\ DOMAIN scr.params =
               {NameOfToken(scr.tokens[i]) :
                    i \in {j \in 1..Len(scr.tokens) : HasEquals(scr.tokens[j])}}
        /\ \A n \in DOMAIN scr.params :
               scr.params[n] = ValueOfToken(scr.tokens[LastGiving(scr.tokens, n)])

\* preview has parsed a name given twice and kept the second value
C16_Witness ==
    /\ scr.cmd = "preview"
    /\ scr.name # "None"
    /\ scr.tokens = <<(<<"a", "=", "1">>), (<<"a", "=", "2">>)>>
    /\ scr.params[<<"a">>] = <<"2">>

\* an existing manifest that carries no requirement: empty, or with
\* dependencies absent, null, without an mcp entry, or with an empty one
ZeroRequirements(m) ==
    /\ m.exists
    /\ \/ m.config = "null"
       \/ m.deps \in {"absent", "null", "no_mcp", "mcp_null"}
       \/ m.deps = "mcp_list" /\ m.mcp = <<>>

\* C14: install fails with ManifestNotFound (exit status 1, no install call)
\* exactly when no manifest exists; an existing manifest that carries zero
\* requirements completes without error and without any install call.
C14_ZeroRequirementsCompletes ==
    instPc = "exited" =>
        /\ (instOutcome = "ManifestNotFound") <=> ~manifest.exists
        /\ ~manifest.exists => (instExit = 1 /\ attempts = <<>>)
        /\ ZeroRequirements(manifest) => (instExit = 0 /\ attempts = <<>>)

\* how many install_package calls were made for the name
TimesAttempted(n) == Cardinality({i \in 1..Len(attempts) : attempts[i] = n})

\* C13: requirements are deduplicated by name with none dropped: a name listed
\* N times appears exactly once in what the install pipeline acts on.
C13_EachNameActedOnOnce ==
    (instPc = "exited" /\ instOutcome = "Complete") =>
        \A n \in DepNames :
            TimesAttempted(n) = IF n \in Range(manifest.mcp) THEN 1 ELSE 0

\* C12: a requirement the local install state already reflects is classified
\* already_installed even when the registry would find it, and install calls
\* the installer only for installable entries, each of them, and never for
\* already_installed or not_found entries.
C12_InstallerCalledOnlyForInstallable ==
    /\ \A n \in installedMarkers \cap registryNames : Classify(n) = "already_installed"
    /\ \A i \in 1..Len(attempts) : Classify(attempts[i]) = "installable"
    /\ (instPc = "exited" /\ instOutcome = "Complete") =>
           \A n \in Range(manifest.mcp) :
               Classify(n) = "installable" => TimesAttempted(n) >= 1

(***************************************************************************)
(* Claims about the runtime records and the runtime commands               *)
(***************************************************************************)

\* C18: is_runtime_available is false for an unsupported name; for a
\* supported name it is true exactly when the binary is a regular file in the
\* managed directory or is found on the system path, and the managed
\* directory is consulted first.
C18_AvailableIffManagedFileOrOnPath ==
    rtOut.op = "is_runtime_available" =>
        /\ rtOut.arg \notin {"codex", "llm"} =>
               (rtOut.ret = "False" /\ rtOut.checks = <<>>)
        /\ rtOut.arg \in {"codex", "llm"} =>
               /\ (rtOut.ret = "True") <=>
                      \/ rtOut.fs.managed[rtOut.arg] = "file"
                      \/ rtOut.fs.onPath[rtOut.arg]
               /\ Head(rtOut.checks) = "managed"
               /\ rtOut.fs.managed[rtOut.arg] = "file" => rtOut.checks = <<"managed">>

\* a directory sits at the binary's place in the managed directory, the
\* binary is not on the system path, and the runtime is reported unavailable
C18_Witness ==
    /\ rtOut.op = "is_runtime_available"
    /\ rtOut.arg = "llm"
    /\ rtOut.fs.managed["llm"] = "dir"
    /\ ~rtOut.fs.onPath["llm"]
    /\ rtOut.ret = "False"
    /\ rtOut.checks = <<"managed", "path">>

\* C19: in a record of list_runtimes, installed = true implies that the path
\* is set and resolves to an existing executable file, and installed = false
\* implies that the path is none.
C19_InstalledRecordHasExecutablePath ==
    rtOut.op = "list_runtimes" =>
        \A n \in {"codex", "llm"} :
            /\ rtOut.ret[n].installed =>
                   /\ rtOut.ret[n].path = <<"runtime_dir", n>>
                   /\ rtOut.fs.managed[n] = "file"
            /\ ~rtOut.ret[n].installed => rtOut.ret[n].path = <<"None">>

\* C20: a successful remove_runtime leaves the managed directory without the
\* binary and, for llm, without llm-venv; an unsupported name or an absent
\* binary returns False and deletes nothing.
C20_RemoveDeletesBinaryAndVenv ==
    rtOut.op = "remove_runtime" =>
        /\ rtOut.ret = "True" =>
               /\ rtOut.arg \in {"codex", "llm"}
               /\ rtOut.after.managed[rtOut.arg] = "absent"
               /\ rtOut.arg = "llm" => rtOut.after.venv = "absent"
        /\ (rtOut.arg \notin {"codex", "llm"}
                \/ rtOut.fs.managed[rtOut.arg] = "absent") =>
               /\ rtOut.ret = "False"
               /\ rtOut.after.managed = rtOut.fs.managed
               /\ rtOut.after.venv = rtOut.venvBefore

\* llm was installed with its virtual environment and has been removed
C20_Witness ==
    /\ rtOut.op = "remove_runtime"
    /\ rtOut.arg = "llm"
    /\ rtOut.fs.managed["llm"] = "file"
    /\ rtOut.venvBefore = "dir"
    /\ rtOut.ret = "True"
    /\ managed["llm"] = "absent"
    /\ venv = "absent"

\* the install command ended in a failure: no manifest, an error, or a
\* dependency whose install raised or reported failure
InstallFailed ==
    \/ instOutcome \in {"ManifestNotFound", "Error"}
    \/ \E i \in 1..Len(report) : report[i].status # "installed"

\* C17: every command exits with status 0 on success and status 1 on any
\* classified failure (script not found, install failure, runtime setup
\* failure, runtime removal failure); no failure gives another nonzero
\* status and no classified failure gives 0.
C17_ExitStatusZeroOrOne ==
    /\ instPc = "exited" =>
           /\ instExit \in {0, 1}
           /\ (instExit = 1) <=> InstallFailed
    /\ scr.pc = "exited" =>
           /\ scr.exit \in {0, 1}
           /\ scr.failure \in {"ScriptNotFound", "NoScriptSpecified",
                               "ExecutionFailed", "Error"} => scr.exit = 1
           /\ scr.failure = "none" => scr.exit = 0
    /\ rtOut.op \in {"cli_setup", "cli_remove"} =>
           /\ rtOut.exit \in {0, 1}
           /\ (rtOut.exit = 1) <=> (rtOut.ret = "False")

(***************************************************************************)
(* Claims about placeholder substitution                                   *)
(***************************************************************************)

\* the names of the variables, and the value given to a name
NamesOf(variables) == {variables[i].name : i \in 1..Len(variables)}
ValueOf(variables, n) ==
    variables[CHOOSE i \in 1..Len(variables) : variables[i].name = n].value

\* the rendering in one pass over the template: a placeholder of a known name
\* becomes the value of the name, everything else is kept as it is
RECURSIVE Rendered(_, _)
Rendered(content, variables) ==
    IF content = <<>> THEN <<>>
    ELSE LET here == {n \in NamesOf(variables) :
                         /\ Len(content) >= Len(Placeholder(n))
                         /\ SubSeq(content, 1, Len(Placeholder(n))) = Placeholder(n)}
         IN  IF here # {}
             THEN LET n == CHOOSE m \in here : TRUE
                  IN  ValueOf(variables, n)
                          \o Rendered(SubSeq(content, Len(Placeholder(n)) + 1,
                                             Len(content)), variables)
             ELSE <<Head(content)>> \o Rendered(Tail(content), variables)

\* C15: substitution is literal and partial-tolerant: every occurrence of a
\* placeholder whose name is in the parameter mapping is replaced by that
\* parameter's value, every placeholder with no matching parameter is left
\* verbatim, and all other text is unchanged.
C15_SubstitutionLiteralAndPartial ==
    tplOut.op = "_load_template_file" =>
        tplOut.ret = Rendered(tplOut.content, tplOut.variables)

\* C21: setup_runtime invokes the setup mechanism at most once per call, with
\* the version (if given) before --vanilla (if set), and returns True exactly
\* when the mechanism exited with code 0; for an unsupported name or an
\* unloadable setup script it returns False without invoking anything.
C21_SetupRunsOnceVersionBeforeVanilla ==
    rtOut.op = "setup_runtime" =>
        /\ Len(rtOut.runs) <= 1
        /\ (rtOut.arg \notin {"codex", "llm"} \/ ~rtOut.scriptsOk) =>
               (rtOut.runs = <<>> /\ rtOut.ret = "False")
        /\ (rtOut.arg \in {"codex", "llm"} /\ rtOut.scriptsOk) =>
               /\ Len(rtOut.runs) = 1
               /\ Len(rtOut.runs[1]) = (IF rtOut.version # "None" THEN 1 ELSE 0)
                                           + (IF rtOut.vanilla THEN 1 ELSE 0)
               /\ rtOut.version # "None" => rtOut.runs[1][1] = rtOut.version
               /\ rtOut.vanilla =>
                      rtOut.runs[1][Len(rtOut.runs[1])] = "--vanilla"
               /\ (rtOut.ret = "True") <=> (rtOut.outcome = "zero")

\* a setup with both a version and --vanilla whose script returned nonzero
C21_Witness ==
    /\ rtOut.op = "setup_runtime"
    /\ rtOut.arg = "llm"
    /\ rtOut.scriptsOk
    /\ rtOut.outcome = "nonzero"
    /\ rtOut.runs = <<(<<"1.2", "--vanilla">>)>>
    /\ rtOut.ret = "False"

\* the positions of the listing page whose name equals the reference, and
\* those of them whose detail record can be fetched
NameMatches(reference, servers) ==
    {i \in 1..Min(DefaultLimit, Len(servers)) : servers[i].name = reference}
Fetchable(reference, servers) ==
    {i \in NameMatches(reference, servers) : servers[i].detail = "ok"}

\* the scan, which follows the listing request, made the detail request for
\* the server at a position
Requested(log, servers, i) ==
    \E l \in 1..Len(log), k \in 1..Len(log) :
        /\ log[l].kind = "list"
        /\ l < k
        /\ log[k] = [kind |-> "get", id |-> servers[i].id]

\* C22: in the exact-name scan, a failure fetching the detail record of one
\* name-matching entry skips only that entry: the scan goes on, returns the
\* first later name-matching entry whose detail fetch succeeds, and returns
\* none only if no name-matching entry can be fetched.
C22_FailedDetailSkipsOnlyThatEntry ==
    (/\ regOut.op = "find_server_by_reference"
     /\ regOut.listOk
     /\ ~YieldsById(regOut.ref, Servers(fillerCount, tail))) =>
        LET servers == Servers(fillerCount, tail)
            matches == NameMatches(regOut.ref, servers)
            fetchable == Fetchable(regOut.ref, servers)
        IN  IF fetchable = {}
            THEN /\ regOut.ret.kind = "none"
                 /\ \A i \in matches : Requested(regOut.log, servers, i)
            ELSE LET first == CHOOSE i \in fetchable : \A j \in fetchable : i <= j
                 IN  /\ regOut.ret.kind = "server"
                     /\ regOut.ret.id = servers[first].id
                     /\ \A i \in matches :
                            Requested(regOut.log, servers, i) <=> i <= first

\* two servers carry the name; the detail of the first cannot be fetched and
\* the second is returned
C22_Witness ==
    /\ regOut.op = "find_server_by_reference"
    /\ regOut.ref = NameFs
    /\ regOut.listOk
    /\ Len(tail) = 2
    /\ tail[1].name = NameFs /\ tail[1].detail = "error"
    /\ tail[2].name = NameFs /\ tail[2].detail = "ok"
    /\ regOut.log = <<ReqList, ReqGet(tail[1].id), ReqGet(tail[2].id)>>
    /\ regOut.ret.kind = "server"
    /\ regOut.ret.id = tail[2].id

\* C23: run exits with status 0 only if the script's command was executed as
\* a subprocess and that subprocess returned 0; every other outcome (runner
\* unavailable, resolution failure, compilation or execution exception,
\* nonzero subprocess exit) ends with a nonzero status.
C23_RunExitsZeroOnlyAfterSubprocessZero ==
    (scr.cmd = "run" /\ scr.pc = "exited") =>
        /\ scr.exit = 0 =>
               /\ calls # <<>>
               /\ calls[Len(calls)] = "subprocess"
               /\ stages[Len(stages)] = "DONE"
        /\ scr.failure # "none" => scr.exit # 0

\* C24: list_runtimes and is_runtime_available agree on installation status:
\* on the same file-system state a runtime that get_available_runtime returns,
\* or for which is_runtime_available is true, is reported installed by
\* list_runtimes, and the other way round.
C24_ListAndAvailabilityAgree ==
    /\ rtOut.op = "list_runtimes" =>
           \A n \in SupportedRuntimes :
               rtOut.ret[n].installed <=> IsRuntimeAvailable(rtOut.fs, n)
    /\ (rtOut.op = "is_runtime_available" /\ rtOut.arg \in SupportedRuntimes) =>
           (rtOut.ret = "True") <=>
               RuntimeStatus(rtOut.arg, rtOut.fs.managed[Binary(rtOut.arg)],
                             rtOut.fs.managed[Binary(rtOut.arg)], "raise").installed
    /\ (rtOut.op = "get_available_runtime" /\ rtOut.ret # "None") =>
           RuntimeStatus(rtOut.ret, rtOut.fs.managed[Binary(rtOut.ret)],
                         rtOut.fs.managed[Binary(rtOut.ret)], "raise").installed

\* C25: remove_runtime is all-or-nothing: whenever it returns False, also
\* when a deletion step raises part-way, neither the binary nor the auxiliary
\* environment directory has been deleted.
C25_FailedRemoveChangesNothing ==
    (rtOut.op = "remove_runtime" /\ rtOut.ret = "False") =>
        /\ rtOut.after.managed = rtOut.fs.managed
        /\ rtOut.after.venv = rtOut.venvBefore

\* C26: with another process setting up or removing the same runtime while
\* list_runtimes runs, every record still has a path exactly when installed
\* is true, for every interleaving of the other process's changes with the
\* existence checks of list_runtimes.
C26_PathSetExactlyWhenInstalled ==
    rtOut.op \in {"listing", "listed"} =>
        \A i \in 1..Len(rtOut.ret) :
            rtOut.ret[i].installed <=> rtOut.ret[i].path # <<"None">>

\* the same variables in another order
Reorderings(variables) ==
    {v \in VariableLists :
        /\ Len(v) = Len(variables)
        /\ {v[i] : i \in 1..Len(v)} = {variables[i] : i \in 1..Len(variables)}}

\* C28: parameter values are opaque strings: the rendered text is the same
\* for every order in which the parameters are applied, and a value that
\* itself contains placeholder syntax is inserted verbatim and never
\* substituted further.
C28_ValuesOpaqueAndOrderIndependent ==
    tplOut.op = "_load_template_file" =>
        /\ \A v \in Reorderings(tplOut.variables) :
               LoadTemplateFile(tplOut.content, v) = tplOut.ret
        /\ \A n \in NamesOf(tplOut.variables) :
               tplOut.content = <<"{", "{">> \o n \o <<"}", "}">> =>
                   tplOut.ret = ValueOf(tplOut.variables, n)

(***************************************************************************)
(* Claims about compiled output paths                                      *)
(***************************************************************************)

\* C27: within one compiled command, distinct prompt-template references map
\* to distinct compiled output paths, so that no compiled output overwrites
\* another, also for templates of the same base name in different
\* directories.
C27_DistinctTemplatesDistinctOutputs ==
    compiledOut.op = "preview" =>
        \A i, j \in 1..Len(compiledOut.files) :
            compiledOut.files[i] # compiledOut.files[j] =>
                compiledOut.paths[i] # compiledOut.paths[j]

=============================================================================
